---- MODULE Spec2Model ----
(***************************************************************************)
(* igc_lab: ScrapedFlight.create_from_file (scraped.py), the conversion of *)
(* flights to pandas tables flights_to_dataframes (pdflight.py) and the    *)
(* batch driver (foo.py).                                                  *)
(*                                                                         *)
(* Time is counted in microseconds: a timestamp of 100.000005 s is the     *)
(* integer 100000005.  Text is a sequence of one-character strings.        *)
(* igc_lib (GNSSFix.build_from_B_record, Flight.__init__), pandas and      *)
(* joblib are libraries outside the repository; what they return is        *)
(* modelled by their documented behaviour, and the verdicts of igc_lib on  *)
(* a file (validity, identity, thermals, the fix of a B line) are carried  *)
(* by the input as an oracle.                                              *)
(***************************************************************************)
EXTENDS Integers, Sequences, FiniteSets, TLC

VARIABLES
    \* ---- ScrapedFlight.create_from_file / __init__ ----
    flight_file,      \* the lines of the file being read
    pos,              \* number of lines consumed by the for loop
    fixes, a_records, i_records, h_records, l_records,
    lpos,             \* number of L records consumed by _parse_l_records
    attrs,            \* the attributes set by _parse_lscr_record
    \* ---- foo.py ----
    argv,             \* the input files, in command-line order
    task,             \* per input file: "queued", "running" or "done"
    results,          \* per input file: the outcome of its task, once done
    completion,       \* history: the indices of the tasks in order of completion
    flights,          \* the list returned by Parallel(...)(...)
    \* ---- pdflight.flights_to_dataframes ----
    arg,              \* the flights handed to flights_to_dataframes
    idx,              \* number of flights consumed by the for loop
    metadata_dfs, fixes_dfs, thermals_series_list,
    ret,              \* the returned tuple, or NoReturn
    err,              \* the exception raised, or "none"
    mode,             \* "parse", "driver" (foo.py) or "direct" (a direct call)
    pc

parseVars == <<flight_file, pos, fixes, a_records, i_records, h_records,
               l_records, lpos, attrs>>
driverVars == <<argv, task, results, completion, flights>>
frameVars == <<arg, idx, metadata_dfs, fixes_dfs, thermals_series_list, ret>>
vars == <<parseVars, driverVars, frameVars, err, mode, pc>>

(***************************************************************************)
(* Bounds and units                                                        *)
(***************************************************************************)
Second == 1000000
MaxLines == 4
MaxLRecords == 3
MaxFixes == 3
MaxFlights == 2
MaxFiles == 3
LastSecond == 3
NumWorkers == 2

Eps == Second \div 100000

Abs(x) == IF x < 0 THEN -x ELSE x
Floor(t) == t \div Second
Ceil(t) == -((-t) \div Second)
Last(s) == s[Len(s)]

(***************************************************************************)
(* Text helpers (str.startswith, str.split(sep, 1)[1], str.strip, int)     *)
(***************************************************************************)
StartsWith(s, p) == Len(s) >= Len(p) /\ SubSeq(s, 1, Len(p)) = p

\* index of the first occurrence of sep in s at or after i, 0 when absent
RECURSIVE FindFrom(_, _, _)
FindFrom(s, sep, i) ==
    IF i + Len(sep) - 1 > Len(s) THEN 0
    ELSE IF SubSeq(s, i, i + Len(sep) - 1) = sep THEN i
    ELSE FindFrom(s, sep, i + 1)

\* s.split(sep, 1)[1]; "IndexError" when sep does not occur
SplitSecond(s, sep) ==
    LET i == FindFrom(s, sep, 1)
    IN  IF i = 0 THEN <<"IndexError">> ELSE SubSeq(s, i + Len(sep), Len(s))

WhiteSpace == {" ", "\t"}

RECURSIVE LStrip(_)
LStrip(s) == IF s # <<>> /\ Head(s) \in WhiteSpace THEN LStrip(Tail(s)) ELSE s

RECURSIVE RStrip(_)
RStrip(s) ==
    IF s # <<>> /\ Last(s) \in WhiteSpace THEN RStrip(SubSeq(s, 1, Len(s) - 1))
    ELSE s

Strip(s) == RStrip(LStrip(s))

Digits == <<"0", "1", "2", "3", "4", "5", "6", "7", "8", "9">>
IsDigit(c) == \E d \in 1..10 : Digits[d] = c
DigitVal(c) == (CHOOSE d \in 1..10 : Digits[d] = c) - 1

RECURSIVE DigitsVal(_)
DigitsVal(s) ==
    IF s = <<>> THEN 0 ELSE 10 * DigitsVal(SubSeq(s, 1, Len(s) - 1)) + DigitVal(Last(s))

AllDigits(s) == s # <<>> /\ \A i \in 1..Len(s) : IsDigit(s[i])

\* int(s): optional surrounding blanks, optional sign, decimal digits
IsIntLiteral(s) ==
    LET t == Strip(s)
    IN  IF t # <<>> /\ Head(t) \in {"+", "-"} THEN AllDigits(Tail(t)) ELSE AllDigits(t)

Int_(s) ==
    LET t == Strip(s)
    IN  IF Head(t) = "-" THEN -DigitsVal(Tail(t))
        ELSE IF Head(t) = "+" THEN DigitsVal(Tail(t))
        ELSE DigitsVal(t)

(***************************************************************************)
(* Lines of a recording.  A line is [text, b]: its characters, line end    *)
(* included, and the fix GNSSFix.build_from_B_record returns for it        *)
(* (NoFix for None).                                                       *)
(***************************************************************************)
NoFix == [rawtime |-> -1, lat |-> 0, flying |-> FALSE, index |-> -1]
IsNone(fix) == fix.rawtime < 0

LF == <<"\n">>
CRLF == <<"\r", "\n">>

L_START == <<"L", "S", "C", "R", ":", ":", "S", "T", "A", "R", "T", ":", "1", "0", ":", "0", "0">>
L_START2 == <<"L", "S", "C", "R", ":", ":", "S", "T", "A", "R", "T", ":", " ", "9", ":", "3", "0", " ">>
L_FINISH == <<"L", "S", "C", "R", ":", ":", "F", "I", "N", "I", "S", "H", ":", "1", "1", ":", "3", "0">>
L_POINTS == <<"L", "S", "C", "R", ":", ":", "P", "O", "I", "N", "T", "S", ":", "8", "5", "0">>
L_POINTS2 == <<"L", "S", "C", "R", ":", ":", "P", "O", "I", "N", "T", "S", ":", " ", "7">>
L_POINTS_BAD == <<"L", "S", "C", "R", ":", ":", "P", "O", "I", "N", "T", "S", ":", "n", "/", "a">>
L_CONTESTANT == <<"L", "S", "C", "R", ":", ":", "C", "O", "N", "T", "E", "S", "T", "A", "N", "T", ":", "J", ".", " ", "D", "o", "e">>
L_COMPETITION == <<"L", "S", "C", "R", ":", ":", "C", "O", "M", "P", "E", "T", "I", "T", "I", "O", "N", ":", "W", "G", "C", ":", ":", "1", "8", "m">>
L_CLASS == <<"L", "S", "C", "R", ":", ":", "C", "L", "A", "S", "S", ":", "C", "l", "u", "b">>
L_OTHER_PREFIX == <<"L", "X", "X", "X", ":", ":", "S", "T", "A", "R", "T", ":", "0", "8", ":", "0", "0">>
L_UNKNOWN_FIELD == <<"L", "S", "C", "R", ":", ":", "W", "I", "N", "D", ":", "2", "7", "0">>
L_NO_COLON == <<"L", "S", "C", "R", ":", ":", "S", "T", "A", "R", "T">>
L_LONGER_NAME == <<"L", "S", "C", "R", ":", ":", "S", "T", "A", "R", "T", "E", "D", ":", "1">>
L_PLAIN == <<"L", "O", "G">>

TextLine(text) == [text |-> text \o CRLF, b |-> NoFix]

\* a B line whose elementary parse yields a fix at rawtime t (microseconds)
BLine(t, lat, flying) ==
    [text |-> <<"B">> \o LF,
     b |-> [rawtime |-> t, lat |-> lat, flying |-> flying, index |-> 0]]
\* a B line the elementary parser rejects
BadBLine == [text |-> <<"B", "?">> \o LF, b |-> NoFix]

\* timestamps around 100.000000 s, 5 microseconds apart
FixTimes == {100 * Second + 5 * k : k \in 0..3}

FixLines ==
    {BLine(t, 0, TRUE) : t \in FixTimes}
    \cup {BadBLine, TextLine(<<>>), TextLine(<<"A", "X">>), TextLine(<<"H", "F">>),
          TextLine(<<"I", "0">>), TextLine(<<"C", "1">>), TextLine(L_POINTS)}

AnnotLines ==
    {TextLine(t) : t \in {L_START, L_START2, L_FINISH, L_POINTS, L_POINTS2,
                          L_POINTS_BAD, L_CONTESTANT, L_COMPETITION, L_CLASS,
                          L_OTHER_PREFIX, L_UNKNOWN_FIELD, L_NO_COLON,
                          L_LONGER_NAME, L_PLAIN}}
    \cup {BLine(100 * Second, 0, TRUE)}

SeqsUpTo(S, n) == UNION {[1..k -> S] : k \in 0..n}

(***************************************************************************)
(* ScrapedFlight.create_from_file: the body of the for loop                *)
(***************************************************************************)
\* line.replace("\n", "").replace("\r", "")
RECURSIVE Remove(_, _)
Remove(s, c) ==
    IF s = <<>> THEN <<>>
    ELSE IF Head(s) = c THEN Remove(Tail(s), c)
    ELSE <<Head(s)>> \o Remove(Tail(s), c)

StripNewline(text) == Remove(Remove(text, "\n"), "\r")

build_from_B_record(line, index) ==
    IF IsNone(line.b) THEN NoFix ELSE [line.b EXCEPT !.index = index]

\* a deduplicator that compares with the first accepted fix
SameTimeAsFirst(fix, fs) ==
    fs # <<>> /\ Abs(fix.rawtime - Head(fs).rawtime) < Eps

\* a deduplicator that forgets the absolute value
SameTimeNoAbs(fix, fs) ==
    fs # <<>> /\ fix.rawtime - Last(fs).rawtime < Eps

\* "The time did not change since the previous fix."
SameTime(fix, fs) ==
    fs # <<>> /\ Abs(fix.rawtime - Last(fs).rawtime) < Eps

EmptyLists ==
    [fixes |-> <<>>, a_records |-> <<>>, i_records |-> <<>>,
     h_records |-> <<>>, l_records |-> <<>>]

\* one iteration of "for line in flight_file" on the lists st
ReadStep(st, rawline) ==
    LET line == StripNewline(rawline.text)
    IN  IF line = <<>> THEN st
        ELSE IF Head(line) = "A" THEN [st EXCEPT !.a_records = Append(@, line)]
        ELSE IF Head(line) = "B" THEN
            LET fix == build_from_B_record(rawline, Len(st.fixes))
            IN  IF IsNone(fix) THEN st
                ELSE IF SameTime(fix, st.fixes) THEN st
                ELSE [st EXCEPT !.fixes = Append(@, fix)]
        ELSE IF Head(line) = "I" THEN [st EXCEPT !.i_records = Append(@, line)]
        ELSE IF Head(line) = "H" THEN [st EXCEPT !.h_records = Append(@, line)]
        ELSE IF Head(line) = "L" THEN [st EXCEPT !.l_records = Append(@, line)]
        ELSE st

(***************************************************************************)
(* ScrapedFlight._parse_l_record / _parse_lscr_record                      *)
(***************************************************************************)
UnsetText == [set |-> FALSE, val |-> <<>>]
UnsetInt == [set |-> FALSE, val |-> 0]
NoAttrs ==
    [start |-> UnsetText, finish |-> UnsetText, points |-> UnsetInt,
     pilot |-> UnsetText, competition |-> UnsetText,
     competition_class |-> UnsetText]

LSCR == <<"L", "S", "C", "R", ":", ":">>
K_START == <<"S", "T", "A", "R", "T">>
K_FINISH == <<"F", "I", "N", "I", "S", "H">>
K_POINTS == <<"P", "O", "I", "N", "T", "S">>
K_CONTESTANT == <<"C", "O", "N", "T", "E", "S", "T", "A", "N", "T">>
K_COMPETITION == <<"C", "O", "M", "P", "E", "T", "I", "T", "I", "O", "N">>
K_CLASS == <<"C", "L", "A", "S", "S">>

\* the field value without .strip()
FieldValueNoStrip(record) ==
    SplitSecond(SplitSecond(record, <<":", ":">>), <<":">>)

\* record.split("::", 1)[1].split(":", 1)[1].strip()
FieldValue(record) ==
    Strip(SplitSecond(SplitSecond(record, <<":", ":">>), <<":">>))

Text(v) == [set |-> TRUE, val |-> v]

\* the result is [attrs, err]; err is "ValueError" when int() rejects the text
parse_lscr_record(a, record) ==
    IF StartsWith(record, LSCR \o K_START \o <<":">>) THEN
        [attrs |-> [a EXCEPT !.start = Text(FieldValue(record))], err |-> "none"]
    ELSE IF StartsWith(record, LSCR \o K_FINISH \o <<":">>) THEN
        [attrs |-> [a EXCEPT !.finish = Text(FieldValue(record))], err |-> "none"]
    ELSE IF StartsWith(record, LSCR \o K_POINTS \o <<":">>) THEN
        IF IsIntLiteral(FieldValue(record))
        THEN [attrs |-> [a EXCEPT !.points = Text(Int_(FieldValue(record)))],
              err |-> "none"]
        ELSE [attrs |-> a, err |-> "ValueError"]
    ELSE IF StartsWith(record, LSCR \o K_CONTESTANT \o <<":">>) THEN
        [attrs |-> [a EXCEPT !.pilot = Text(FieldValue(record))], err |-> "none"]
    ELSE IF StartsWith(record, LSCR \o K_COMPETITION \o <<":">>) THEN
        [attrs |-> [a EXCEPT !.competition = Text(FieldValue(record))], err |-> "none"]
    ELSE IF StartsWith(record, LSCR \o K_CLASS \o <<":">>) THEN
        [attrs |-> [a EXCEPT !.competition_class = Text(FieldValue(record))],
         err |-> "none"]
    ELSE [attrs |-> a, err |-> "none"]

parse_l_record(a, record) ==
    IF SubSeq(record, 1, IF Len(record) < 6 THEN Len(record) ELSE 6) = LSCR
    THEN parse_lscr_record(a, record)
    ELSE [attrs |-> a, err |-> "none"]

\* _parse_l_records: the fold over the L records; it stops at the first error
RECURSIVE parse_l_records(_, _)
parse_l_records(a, records) ==
    IF records = <<>> THEN [attrs |-> a, err |-> "none"]
    ELSE LET r == parse_l_record(a, Head(records))
         IN  IF r.err # "none" THEN r ELSE parse_l_records(r.attrs, Tail(records))

RECURSIVE ReadAll(_, _)
ReadAll(st, lines) ==
    IF lines = <<>> THEN st ELSE ReadAll(ReadStep(st, Head(lines)), Tail(lines))

(***************************************************************************)
(* Reading one file, step by step                                          *)
(***************************************************************************)
NoReturn == [returned |-> FALSE, md |-> <<>>, fl |-> <<>>, th |-> <<>>]

IdleParse ==
    /\ flight_file = <<>> /\ pos = 0
    /\ fixes = <<>> /\ a_records = <<>> /\ i_records = <<>>
    /\ h_records = <<>> /\ l_records = <<>>
    /\ lpos = 0 /\ attrs = NoAttrs

IdleDriver ==
    argv = <<>> /\ task = <<>> /\ results = <<>> /\ completion = <<>> /\ flights = <<>>

IdleFrames ==
    /\ arg = <<>> /\ idx = 0
    /\ metadata_dfs = <<>> /\ fixes_dfs = <<>> /\ thermals_series_list = <<>>
    /\ ret = NoReturn

InitRead(lines) ==
    /\ flight_file \in lines /\ pos = 0
    /\ fixes = <<>> /\ a_records = <<>> /\ i_records = <<>>
    /\ h_records = <<>> /\ l_records = <<>>
    /\ lpos = 0 /\ attrs = NoAttrs
    /\ IdleDriver /\ IdleFrames
    /\ err = "none" /\ mode = "parse" /\ pc = "read"

\* "for line in flight_file": one line
ReadLine ==
    /\ pc = "read" /\ pos < Len(flight_file)
    /\ LET st == ReadStep([fixes |-> fixes, a_records |-> a_records,
                           i_records |-> i_records, h_records |-> h_records,
                           l_records |-> l_records], flight_file[pos + 1])
       IN  /\ fixes' = st.fixes
           /\ a_records' = st.a_records
           /\ i_records' = st.i_records
           /\ h_records' = st.h_records
           /\ l_records' = st.l_records
    /\ pos' = pos + 1
    /\ UNCHANGED <<flight_file, lpos, attrs, driverVars, frameVars, err, mode, pc>>

\* end of file: ScrapedFlight(fixes, ...) runs Flight.__init__, then
\* "if l_records: self._parse_l_records(l_records)"
Construct ==
    /\ pc = "read" /\ pos = Len(flight_file)
    /\ pc' = IF l_records # <<>> THEN "l_records" ELSE "returned"
    /\ UNCHANGED <<parseVars, driverVars, frameVars, err, mode>>

\* "for record in l_records: self._parse_l_record(record)": one record
ParseLRecord ==
    /\ pc = "l_records" /\ lpos < Len(l_records)
    /\ LET r == parse_l_record(attrs, l_records[lpos + 1])
       IN  IF r.err # "none"
           THEN /\ err' = r.err /\ pc' = "raised"
                /\ UNCHANGED <<attrs, lpos>>
           ELSE /\ attrs' = r.attrs /\ lpos' = lpos + 1
                /\ pc' = IF lpos + 1 = Len(l_records) THEN "returned" ELSE "l_records"
                /\ err' = err
    /\ UNCHANGED <<flight_file, pos, fixes, a_records, i_records, h_records,
                   l_records, driverVars, frameVars, mode>>

NextParse == ReadLine \/ Construct \/ ParseLRecord

InitParse == InitRead(SeqsUpTo(FixLines, MaxLines))
SpecParse == InitParse /\ [][NextParse]_vars

InitAnnot == InitRead(SeqsUpTo(AnnotLines, MaxLRecords))
SpecAnnot == InitAnnot /\ [][NextParse]_vars

(***************************************************************************)
(* ScrapedFlight.create_from_file as one call (the task of the driver).    *)
(* A file is [lines, igc]; igc is what Flight.__init__ of igc_lib derives  *)
(* from the records: the identity (fr_manuf_code, fr_uniq_id, date) as one *)
(* ordered key, the validity verdict and the thermals.                     *)
(***************************************************************************)
NoFlight == [key |-> 0, valid |-> FALSE, fixes |-> <<>>, thermals |-> <<>>,
             pilot |-> UnsetText, points |-> UnsetInt]

create_from_file(file) ==
    LET st == ReadAll(EmptyLists, file.lines)
        pl == IF st.l_records # <<>> THEN parse_l_records(NoAttrs, st.l_records)
              ELSE [attrs |-> NoAttrs, err |-> "none"]
    IN  IF pl.err # "none" THEN [err |-> pl.err, flight |-> NoFlight]
        ELSE [err |-> "none",
              flight |->
                [key |-> file.igc.key, valid |-> file.igc.valid,
                 fixes |-> [i \in 1..Len(st.fixes) |->
                              [timestamp |-> st.fixes[i].rawtime,
                               lat |-> st.fixes[i].lat,
                               flying |-> st.fixes[i].flying]],
                 thermals |-> file.igc.thermals,
                 pilot |-> pl.attrs.pilot, points |-> pl.attrs.points]]

(***************************************************************************)
(* pdflight.flights_to_dataframes: one flight                              *)
(***************************************************************************)
NaN == [nan |-> TRUE, num |-> 0, den |-> 1]
Known(v) == [nan |-> FALSE, num |-> v, den |-> 1]

SetMin(S) == CHOOSE x \in S : \A y \in S : x <= y
SetMax(S) == CHOOSE x \in S : \A y \in S : x >= y

Timestamps(fs) == {fs[i].timestamp : i \in 1..Len(fs)}

\* a conversion without the validity check
NeverInvalid(flight) == FALSE

\* "if not flight.valid"
Invalid(flight) == ~flight.valid

\* a conversion without the check of the index
NoDuplicateCheck(fs) == FALSE

\* fixes_df.index.has_duplicates
HasDuplicates(fs) ==
    \E i, j \in 1..Len(fs) : i # j /\ fs[i].timestamp = fs[j].timestamp

\* ax.inferred_freq is one second: three or more rising stamps, 1 s apart
InferredFreqIsSecond(fs) ==
    /\ Len(fs) >= 3
    /\ \A i \in 1..(Len(fs) - 1) : fs[i + 1].timestamp - fs[i].timestamp = Second

\* fixes_df.resample('s').asfreq(): the bins run from the floor of the
\* smallest stamp to the floor of the largest one; a bin holds the fix that
\* lies exactly on its label and is empty otherwise.  When the index already
\* has the frequency of one second the frame is kept and only relabelled.
Resample(fs) ==
    LET lo == Floor(SetMin(Timestamps(fs)))
        hi == Floor(SetMax(Timestamps(fs)))
        n == hi - lo + 1
    IN  IF InferredFreqIsSecond(fs) /\ Len(fs) = n
        THEN [k \in 1..n |->
                [datetime |-> (lo + k - 1) * Second,
                 lat |-> Known(fs[k].lat),
                 flying |-> IF fs[k].flying THEN "True" ELSE "False"]]
        ELSE [k \in 1..n |->
                LET t == (lo + k - 1) * Second
                IN  IF \E i \in 1..Len(fs) : fs[i].timestamp = t
                    THEN LET f == fs[CHOOSE i \in 1..Len(fs) : fs[i].timestamp = t]
                         IN  [datetime |-> t, lat |-> Known(f.lat),
                              flying |-> IF f.flying THEN "True" ELSE "False"]
                    ELSE [datetime |-> t, lat |-> NaN, flying |-> "NaN"]]

\* fixes_df[num_cols].interpolate(method='time'): a gap between two known
\* values is filled linearly in the index, a gap at the end repeats the last
\* known value, a gap at the start stays empty
Interpolate(rows) ==
    [k \in 1..Len(rows) |->
        IF ~rows[k].lat.nan THEN rows[k]
        ELSE LET before == {j \in 1..(k - 1) : ~rows[j].lat.nan}
                 after == {j \in (k + 1)..Len(rows) : ~rows[j].lat.nan}
             IN  IF before = {} THEN rows[k]
                 ELSE IF after = {} THEN [rows[k] EXCEPT !.lat = rows[SetMax(before)].lat]
                 ELSE LET p == SetMax(before)
                          q == SetMin(after)
                          v1 == rows[p].lat.num
                          v2 == rows[q].lat.num
                      IN  [rows[k] EXCEPT !.lat =
                              [nan |-> FALSE,
                               num |-> v1 * (q - p) + (v2 - v1) * (k - p),
                               den |-> q - p]]]

\* fixes_df[bool_cols].ffill()
FFill(rows) ==
    [k \in 1..Len(rows) |->
        LET seen == {j \in 1..k : rows[j].flying # "NaN"}
        IN  IF seen = {} THEN rows[k]
            ELSE [rows[k] EXCEPT !.flying = rows[SetMax(seen)].flying]]

\* the index (datetime, code, id, date)
WithKey(rows, key) ==
    [k \in 1..Len(rows) |->
        [datetime |-> rows[k].datetime, key |-> key,
         lat |-> rows[k].lat, flying |-> rows[k].flying]]

ThermalRows(flight) ==
    [k \in 1..Len(flight.thermals) |->
        [datetime |-> flight.thermals[k].enter, key |-> flight.key,
         duration |-> flight.thermals[k].duration]]

MetadataRow(flight) ==
    [key |-> flight.key, pilot |-> flight.pilot, points |-> flight.points]

\* the body of "for flight in flights"; an empty frame has no columns, so
\* fixes_df[num_cols] raises KeyError for a flight without fixes
Normalize(flight) ==
    IF Invalid(flight)
    THEN [err |-> "ValueError: Flight is invalid", md |-> <<>>, fl |-> <<>>, th |-> <<>>]
    ELSE IF HasDuplicates(flight.fixes)
    THEN [err |-> "ValueError: Duplicate indices",
          md |-> <<MetadataRow(flight)>>, fl |-> <<>>, th |-> <<>>]
    ELSE IF flight.fixes = <<>>
    THEN [err |-> "KeyError", md |-> <<MetadataRow(flight)>>, fl |-> <<>>, th |-> <<>>]
    ELSE [err |-> "none",
          md |-> <<MetadataRow(flight)>>,
          fl |-> WithKey(FFill(Interpolate(Resample(flight.fixes))), flight.key),
          th |-> ThermalRows(flight)]

\* pd.concat
RECURSIVE pd_concat(_)
pd_concat(frames) ==
    IF frames = <<>> THEN <<>> ELSE Head(frames) \o pd_concat(Tail(frames))

(***************************************************************************)
(* Inputs of flights_to_dataframes and of the driver                       *)
(***************************************************************************)
HalfSecond == Second \div 2
HalfSeconds == {k * HalfSecond : k \in 0..(2 * LastSecond)}

\* the stamps of a flight, in recording order
TimeSeqs ==
    {ts \in SeqsUpTo(HalfSeconds, MaxFixes) :
        \A i \in 1..(Len(ts) - 1) : ts[i] <= ts[i + 1]}

\* two latitude profiles over time: a straight line and a curve
Profiles == {"line", "curve"}
LatAt(t, profile) ==
    LET h == t \div HalfSecond
    IN  IF profile = "line" THEN 3 * h ELSE h * h

FixesOf(ts, profile) ==
    [i \in 1..Len(ts) |->
        [timestamp |-> ts[i], lat |-> LatAt(ts[i], profile), flying |-> i >= 2]]

\* one climb from the first to the last fix, when there are two fixes
ThermalsOf(ts) ==
    IF Len(ts) < 2 THEN <<>>
    ELSE <<[enter |-> ts[1], duration |-> ts[Len(ts)] - ts[1]]>>

MkFlight(key, valid, ts, profile) ==
    [key |-> key, valid |-> valid, fixes |-> FixesOf(ts, profile),
     thermals |-> ThermalsOf(ts),
     pilot |-> Text(<<"J", ".", " ", "D", "o", "e">>), points |-> Text(850)]

\* single flights with every stamp sequence
RichFlights ==
    {MkFlight(1, v, ts, p) : v \in BOOLEAN, ts \in TimeSeqs, p \in Profiles}

\* flights that are combined into lists
PoolFlights ==
    {MkFlight(2, TRUE, <<0, Second, 3 * Second>>, "curve"),
     MkFlight(1, TRUE, <<Second, 2 * Second>>, "line"),
     MkFlight(1, FALSE, <<0, Second>>, "line"),
     MkFlight(3, TRUE, <<2 * Second, 2 * Second>>, "line"),
     MkFlight(3, TRUE, <<0, 2 * Second>>, "curve"),
     MkFlight(2, TRUE, <<2 * Second, 3 * Second>>, "line")}

DirectArgs ==
    {<<f>> : f \in RichFlights} \cup SeqsUpTo(PoolFlights, MaxFlights)

\* argv[0] is the driver script itself: no A, B, H, I or L line, no fixes
FooPy ==
    [lines |-> <<TextLine(<<"#", "!">>), TextLine(<<>>),
                 TextLine(<<"i", "m", "p", "o", "r", "t">>)>>,
     igc |-> [key |-> 9, valid |-> FALSE, thermals |-> <<>>]]

\* annotations and fixes at 0, 1 and 3 s
File1 ==
    [lines |-> <<TextLine(<<"A", "X">>), BLine(0, 0, FALSE), BLine(Second, 2, TRUE),
                 BLine(3 * Second, 6, TRUE), TextLine(L_START), TextLine(L_FINISH),
                 TextLine(L_POINTS), TextLine(L_CONTESTANT)>>,
     igc |-> [key |-> 2, valid |-> TRUE,
              thermals |-> <<[enter |-> Second, duration |-> 2 * Second]>>]]

\* a repeated sample 5 microseconds after the first fix
File2 ==
    [lines |-> <<BLine(Second, 4, TRUE), BLine(Second + 5, 5, TRUE),
                 BLine(2 * Second, 8, TRUE), TextLine(L_POINTS2)>>,
     igc |-> [key |-> 1, valid |-> TRUE, thermals |-> <<>>]]

\* a recording igc_lib marks invalid
File3 ==
    [lines |-> <<BLine(0, 1, TRUE), BLine(2 * Second, 3, TRUE)>>,
     igc |-> [key |-> 3, valid |-> FALSE, thermals |-> <<>>]]

\* a recording whose POINTS annotation is not a number
File4 ==
    [lines |-> <<BLine(0, 1, TRUE), BLine(Second, 3, TRUE), TextLine(L_POINTS_BAD)>>,
     igc |-> [key |-> 4, valid |-> TRUE, thermals |-> <<>>]]

SampleFiles == {File1, File2, File3, File4}

(***************************************************************************)
(* foo.py: Parallel(n_jobs=-1)(delayed(create_from_file)(i) for i in argv) *)
(***************************************************************************)
NoResult == [err |-> "pending", flight |-> NoFlight]

\* a pool that hands the results back in the order of completion
StoreFirstFree(res, i, r) ==
    [res EXCEPT ![SetMin({j \in 1..Len(res) : res[j].err = "pending"})] = r]

\* the result of task i goes to slot i of the returned list
Store(res, i, r) == [res EXCEPT ![i] = r]

\* "flight for flight in flights if flight.valid"
IsValid(f) == f.valid
ValidOnly(fs) == SelectSeq(fs, IsValid)

Running == {i \in 1..Len(task) : task[i] = "running"}

\* a worker takes the next task of the queue
Dispatch(i) ==
    /\ mode = "driver" /\ pc = "parallel"
    /\ task[i] = "queued"
    /\ \A j \in 1..(i - 1) : task[j] # "queued"
    /\ Cardinality(Running) < NumWorkers
    /\ task' = [task EXCEPT ![i] = "running"]
    /\ UNCHANGED <<parseVars, argv, results, completion, flights, frameVars,
                   err, mode, pc>>

\* a worker finishes create_from_file(argv[i])
Finish(i) ==
    /\ mode = "driver" /\ pc = "parallel"
    /\ task[i] = "running"
    /\ task' = [task EXCEPT ![i] = "done"]
    /\ results' = Store(results, i, create_from_file(argv[i]))
    /\ completion' = Append(completion, i)
    /\ UNCHANGED <<parseVars, argv, flights, frameVars, err, mode, pc>>

\* Parallel returns (or raises what a task raised); the valid flights are
\* handed to flights_to_dataframes
Gather ==
    /\ mode = "driver" /\ pc = "parallel"
    /\ \A i \in 1..Len(task) : task[i] = "done"
    /\ IF \E i \in 1..Len(results) : results[i].err # "none"
       THEN /\ err' = results[SetMin({i \in 1..Len(results) :
                                        results[i].err # "none"})].err
            /\ pc' = "raised"
            /\ UNCHANGED <<flights, arg>>
       ELSE /\ flights' = [i \in 1..Len(results) |-> results[i].flight]
            /\ arg' = ValidOnly(flights')
            /\ pc' = "loop"
            /\ err' = err
    /\ UNCHANGED <<parseVars, argv, task, results, completion, idx, metadata_dfs,
                   fixes_dfs, thermals_series_list, ret, mode>>

(***************************************************************************)
(* flights_to_dataframes: the loop and the concatenation                   *)
(***************************************************************************)
ProcessFlight ==
    /\ pc = "loop" /\ idx < Len(arg)
    /\ LET r == Normalize(arg[idx + 1])
       IN  IF r.err # "none"
           THEN /\ err' = r.err /\ pc' = "raised"
                /\ metadata_dfs' = metadata_dfs \o r.md
                /\ UNCHANGED <<idx, fixes_dfs, thermals_series_list>>
           ELSE /\ metadata_dfs' = metadata_dfs \o r.md
                /\ fixes_dfs' = Append(fixes_dfs, r.fl)
                /\ thermals_series_list' = Append(thermals_series_list, r.th)
                /\ idx' = idx + 1
                /\ UNCHANGED <<err, pc>>
    /\ UNCHANGED <<parseVars, driverVars, arg, ret, mode>>

\* pd.concat of an empty list raises "No objects to concatenate"
Return ==
    /\ pc = "loop" /\ idx = Len(arg)
    /\ IF metadata_dfs = <<>>
       THEN /\ err' = "ValueError: No objects to concatenate" /\ pc' = "raised"
            /\ ret' = ret
       ELSE /\ ret' = [returned |-> TRUE, md |-> metadata_dfs,
                       fl |-> pd_concat(fixes_dfs),
                       th |-> pd_concat(thermals_series_list)]
            /\ pc' = "returned"
            /\ err' = err
    /\ UNCHANGED <<parseVars, driverVars, arg, idx, metadata_dfs, fixes_dfs,
                   thermals_series_list, mode>>

InitDirect ==
    /\ IdleParse /\ IdleDriver
    /\ arg \in DirectArgs /\ idx = 0
    /\ metadata_dfs = <<>> /\ fixes_dfs = <<>> /\ thermals_series_list = <<>>
    /\ ret = NoReturn
    /\ err = "none" /\ mode = "direct" /\ pc = "loop"

InitDriver ==
    /\ IdleParse /\ IdleFrames
    /\ argv \in {<<FooPy>> \o fs : fs \in SeqsUpTo(SampleFiles, MaxFiles)}
    /\ task = [i \in 1..Len(argv) |-> "queued"]
    /\ results = [i \in 1..Len(argv) |-> NoResult]
    /\ completion = <<>> /\ flights = <<>>
    /\ err = "none" /\ mode = "driver" /\ pc = "parallel"

Init == InitDirect \/ InitDriver

Next ==
    \/ \E i \in 1..Len(task) : Dispatch(i)
    \/ \E i \in 1..Len(task) : Finish(i)
    \/ Gather
    \/ ProcessFlight
    \/ Return

Spec == Init /\ [][Next]_vars

(***************************************************************************)
(* Properties of create_from_file                                          *)
(***************************************************************************)
\* the fixes the elementary parser yields for the first n lines, in order
RECURSIVE ParsedFixes(_, _)
ParsedFixes(lines, n) ==
    IF n = 0 THEN <<>>
    ELSE LET line == lines[n]
         IN  IF Len(line.text) > 0 /\ line.text[1] = "B" /\ line.b.rawtime >= 0
             THEN Append(ParsedFixes(lines, n - 1), line.b)
             ELSE ParsedFixes(lines, n - 1)

\* C1: whatever lines were read (B lines that parse to a fix, B lines that
\* parse to nothing, other lines, in any order), the fix list never holds two
\* consecutive fixes whose timestamps differ by less than 1e-5 s.
C1_NoCloseNeighbours ==
    \A i \in 1..(Len(fixes) - 1) :
        Abs(fixes[i + 1].rawtime - fixes[i].rawtime) >= Eps

\* a whole file was read, at least two fixes were kept, at least one was
\* dropped, and the file held a B line without a fix and a line of another type
C1_Witness ==
    /\ mode = "parse" /\ pc = "returned"
    /\ Len(fixes) >= 2
    /\ Len(ParsedFixes(flight_file, Len(flight_file))) > Len(fixes)

\* C2: one left-to-right pass that compares each newly parsed fix with the
\* last accepted fix only: within 1e-5 s of it the new fix is discarded and
\* the list is unchanged, otherwise the fix is appended and becomes the last
\* one; a line that yields no fix changes nothing; and the file with fixes at
\* 100.000000 and 100.000005 returns exactly the first fix.
C2_Step ==
    (mode = "parse" /\ pc = "read" /\ pos' = pos + 1) =>
        LET line == flight_file[pos + 1]
            isfix == Len(line.text) > 0 /\ line.text[1] = "B" /\ line.b.rawtime >= 0
        IN  /\ ~isfix => fixes' = fixes
            /\ isfix /\ fixes # <<>>
                   /\ Abs(line.b.rawtime - fixes[Len(fixes)].rawtime) < Eps
                 => fixes' = fixes
            /\ isfix /\ (fixes = <<>>
                         \/ Abs(line.b.rawtime - fixes[Len(fixes)].rawtime) >= Eps)
                 => /\ Len(fixes') = Len(fixes) + 1
                    /\ SubSeq(fixes', 1, Len(fixes)) = fixes
                    /\ fixes'[Len(fixes')].rawtime = line.b.rawtime

C2_Scenario ==
    (/\ flight_file = <<BLine(100 * Second, 0, TRUE), BLine(100 * Second + 5, 0, TRUE)>>
     /\ pc' = "returned")
        => (Len(fixes') = 1 /\ fixes'[1].rawtime = 100 * Second)

C2_LastAcceptedOnly == [][C2_Step /\ C2_Scenario]_vars

\* the two-fix scenario has been read to the end and one fix is left
C2_Witness ==
    /\ mode = "parse" /\ pc = "returned"
    /\ flight_file = <<BLine(100 * Second, 0, TRUE), BLine(100 * Second + 5, 0, TRUE)>>
    /\ Len(fixes) = 1 /\ fixes[1].rawtime = 100 * Second

(***************************************************************************)
(* Properties of the annotation parser                                     *)
(***************************************************************************)
FieldNames ==
    [start |-> K_START, finish |-> K_FINISH, points |-> K_POINTS,
     pilot |-> K_CONTESTANT, competition |-> K_COMPETITION,
     competition_class |-> K_CLASS]

Marked(record, f) == StartsWith(record, LSCR \o FieldNames[f] \o <<":">>)
Recognized(record) == \E f \in DOMAIN FieldNames : Marked(record, f)

\* the trimmed text after the ':' that follows the field name
TextAfterName(record, f) ==
    Strip(SubSeq(record, Len(LSCR) + Len(FieldNames[f]) + 2, Len(record)))

\* the L lines among the first n lines of the file, in file order
RECURSIVE LLines(_, _)
LLines(lines, n) ==
    IF n = 0 THEN <<>>
    ELSE LET t == StripNewline(lines[n].text)
         IN  IF t # <<>> /\ Head(t) = "L" THEN Append(LLines(lines, n - 1), t)
             ELSE LLines(lines, n - 1)

LStepTaken == mode = "parse" /\ pc = "l_records" /\ (lpos' # lpos \/ pc' # pc)

FileOrder ==
    /\ l_records' = LLines(flight_file, pos')
    /\ LStepTaken /\ pc' # "raised" => lpos' = lpos + 1

\* what a text field is set to
SetsText(record, f) ==
    attrs' = [attrs EXCEPT ![f] = [set |-> TRUE, val |-> TextAfterName(record, f)]]

SetsPoints(record) ==
    /\ IsIntLiteral(TextAfterName(record, "points"))
    /\ attrs' = [attrs EXCEPT !.points =
                    [set |-> TRUE, val |-> Int_(TextAfterName(record, "points"))]]

\* C8 as stated: every L line with the LSCR:: marker and a recognized field
\* name sets that one field to the trimmed text after the name's ':' (POINTS
\* as an integer) and leaves the others alone; any other line changes no
\* field and raises no error; the lines are applied in file order.
C8_Original_Step ==
    LStepTaken =>
        LET record == l_records[lpos + 1]
        IN  /\ \A f \in DOMAIN FieldNames \ {"points"} :
                   Marked(record, f) => SetsText(record, f) /\ pc' # "raised"
            /\ Marked(record, "points") => SetsPoints(record) /\ pc' # "raised"
            /\ ~Recognized(record) => attrs' = attrs /\ pc' # "raised" /\ err' = "none"

C8_Original == [][FileOrder /\ C8_Original_Step]_vars

\* C8 amended: as C8, except that a POINTS line whose trimmed text int()
\* rejects raises ValueError, sets no field and ends the parsing.
C8_Amended_Step ==
    LStepTaken =>
        LET record == l_records[lpos + 1]
        IN  /\ \A f \in DOMAIN FieldNames \ {"points"} :
                   Marked(record, f) => SetsText(record, f) /\ pc' # "raised"
            /\ Marked(record, "points")
                   /\ IsIntLiteral(TextAfterName(record, "points"))
                 => SetsPoints(record) /\ pc' # "raised"
            /\ Marked(record, "points")
                   /\ ~IsIntLiteral(TextAfterName(record, "points"))
                 => attrs' = attrs /\ pc' = "raised" /\ err' = "ValueError"
            /\ ~Recognized(record) => attrs' = attrs /\ pc' # "raised" /\ err' = "none"

C8_FoldLastWins == [][FileOrder /\ C8_Amended_Step]_vars

\* all L records were applied: two START lines with different values, the
\* later one won, and a line that is not recognized sits between or around them
C8_Witness ==
    /\ mode = "parse" /\ pc = "returned" /\ lpos = Len(l_records)
    /\ \E i, j \in 1..Len(l_records) :
          /\ i < j
          /\ Marked(l_records[i], "start") /\ Marked(l_records[j], "start")
          /\ TextAfterName(l_records[i], "start") # TextAfterName(l_records[j], "start")
          /\ \A k \in (j + 1)..Len(l_records) : ~Marked(l_records[k], "start")
          /\ attrs.start = [set |-> TRUE, val |-> TextAfterName(l_records[j], "start")]
    /\ \E k \in 1..Len(l_records) : ~Recognized(l_records[k])

(***************************************************************************)
(* Properties of flights_to_dataframes and of the driver                   *)
(***************************************************************************)
RowKeys(rows) == {rows[k].key : k \in 1..Len(rows)}
ValidKeys(fs) == {fs[i].key : i \in {j \in 1..Len(fs) : fs[j].valid}}
Repeats(fs) == Cardinality(Timestamps(fs)) < Len(fs)
FirstInvalid(fs) == SetMin({i \in 1..Len(fs) : ~fs[i].valid})

\* C3: an invalid flight never contributes a row.  In the driver (lenient)
\* only valid flights reach flights_to_dataframes and every row of the three
\* corpora belongs to a valid flight, one metadata row per valid flight; in a
\* direct call with an invalid flight in the list (strict) the loop never
\* gets past that flight, the call raises and nothing is returned.
C3_InvalidNeverContributes ==
    /\ mode = "driver" =>
          /\ \A i \in 1..Len(arg) : arg[i].valid
          /\ ret.returned =>
                /\ Len(ret.md) = Cardinality({i \in 1..Len(flights) : flights[i].valid})
                /\ RowKeys(ret.md) \cup RowKeys(ret.fl) \cup RowKeys(ret.th)
                      \subseteq ValidKeys(flights)
    /\ (mode = "direct" /\ \E i \in 1..Len(arg) : ~arg[i].valid) =>
          /\ ret = NoReturn /\ pc # "returned"
          /\ idx < FirstInvalid(arg)
          /\ (pc = "raised" /\ ~arg[idx + 1].valid)
                => err = "ValueError: Flight is invalid"

\* the driver returned corpora of two or more flights although, besides the
\* script itself, a recording marked invalid was among the inputs
C3_Witness ==
    /\ mode = "driver" /\ pc = "returned" /\ ret.returned
    /\ Len(ret.md) >= 2 /\ Len(ret.fl) > 0
    /\ \E i \in 2..Len(flights) :
          ~flights[i].valid /\ flights[i].fixes # <<>>
          /\ flights[i].key \notin RowKeys(ret.md) \cup RowKeys(ret.fl)

\* C4 as stated: the table of a valid flight with two or more fixes has
\* floor(last) - ceil(first) + 1 rows, one second apart.
C4_RowCount ==
    \A i \in 1..Len(fixes_dfs) :
        LET fs == arg[i].fixes
        IN  Len(fs) >= 2 =>
              /\ Len(fixes_dfs[i]) =
                    Floor(fs[Len(fs)].timestamp) - Ceil(fs[1].timestamp) + 1
              /\ \A k \in 1..(Len(fixes_dfs[i]) - 1) :
                    fixes_dfs[i][k + 1].datetime - fixes_dfs[i][k].datetime = Second

RowLess(a, b) == a.key < b.key \/ (a.key = b.key /\ a.datetime < b.datetime)

\* C5 as stated: the returned fix corpus is sorted by (flight key, timestamp)
\* and holds no (flight key, timestamp) pair twice.
C5_SortedCorpus ==
    ret.returned =>
        \A k \in 1..(Len(ret.fl) - 1) : RowLess(ret.fl[k], ret.fl[k + 1])

\* C6: a flight that reaches the conversion with two fixes on one timestamp
\* makes the call fail with the duplicate-index error; no fix table is ever
\* built from such a flight and nothing is returned.
C6_DuplicateIsFatal ==
    /\ \A i \in 1..Len(fixes_dfs) : ~Repeats(arg[i].fixes)
    /\ ret.returned => \A i \in 1..Len(arg) : ~Repeats(arg[i].fixes)
    /\ (pc = "raised" /\ idx < Len(arg) /\ arg[idx + 1].valid
            /\ Repeats(arg[idx + 1].fixes))
          => /\ err = "ValueError: Duplicate indices"
             /\ Len(fixes_dfs) = idx
             /\ ret = NoReturn

\* the second flight of a list repeats a timestamp: the first flight was
\* converted, the call raised on the second
C6_Witness ==
    /\ pc = "raised" /\ err = "ValueError: Duplicate indices"
    /\ idx >= 1 /\ Len(fixes_dfs) = idx
    /\ arg[idx + 1].valid /\ Repeats(arg[idx + 1].fixes)

\* C7 as stated: a flight with fewer than two fixes is rejected; no fix
\* table is built from it and the call does not return.
C7_TooFewFixes ==
    /\ \A i \in 1..Len(fixes_dfs) : Len(arg[i].fixes) >= 2
    /\ ret.returned => \A i \in 1..Len(arg) : Len(arg[i].fixes) >= 2

\* C9 as stated: at a tick strictly between two consecutive fixes (t1, v1)
\* and (t2, v2) of the flight the latitude is v1 + (v2 - v1)(t - t1)/(t2 - t1).
C9_TimeWeighted ==
    \A i \in 1..Len(fixes_dfs) :
        \A j \in 1..(Len(arg[i].fixes) - 1) :
            \A k \in 1..Len(fixes_dfs[i]) :
                LET t1 == arg[i].fixes[j].timestamp \div HalfSecond
                    t2 == arg[i].fixes[j + 1].timestamp \div HalfSecond
                    v1 == arg[i].fixes[j].lat
                    v2 == arg[i].fixes[j + 1].lat
                    t == fixes_dfs[i][k].datetime \div HalfSecond
                    x == fixes_dfs[i][k].lat
                IN  (t1 < t /\ t < t2) =>
                       /\ ~x.nan
                       /\ x.num * (t2 - t1)
                             = x.den * (v1 * (t2 - t1) + (v2 - v1) * (t - t1))

\* what the driver computes when the files are read one after the other
SerialResults == [i \in 1..Len(argv) |-> create_from_file(argv[i])]
SerialFlightsOf(res) == [i \in 1..Len(res) |-> res[i].flight]
SerialValidOf(fls) == LET ok(f) == f.valid IN SelectSeq(fls, ok)

OutcomeOf(res, frames) ==
    LET parseFailures == {i \in 1..Len(res) : res[i].err # "none"}
        frameFailures == {i \in 1..Len(frames) : frames[i].err # "none"}
    IN  IF parseFailures # {}
        THEN [pc |-> "raised", err |-> res[SetMin(parseFailures)].err, ret |-> NoReturn]
        ELSE IF frameFailures # {}
        THEN [pc |-> "raised", err |-> frames[SetMin(frameFailures)].err,
              ret |-> NoReturn]
        ELSE IF frames = <<>>
        THEN [pc |-> "raised", err |-> "ValueError: No objects to concatenate",
              ret |-> NoReturn]
        ELSE [pc |-> "returned", err |-> "none",
              ret |-> [returned |-> TRUE,
                       md |-> pd_concat([i \in 1..Len(frames) |-> frames[i].md]),
                       fl |-> pd_concat([i \in 1..Len(frames) |-> frames[i].fl]),
                       th |-> pd_concat([i \in 1..Len(frames) |-> frames[i].th])]]

\* C10: whatever the order in which the workers finish, the flights handed
\* to flights_to_dataframes are in the order of the input files, and the
\* outcome of the driver (the three corpora, or the error) is the one of
\* reading the files one after the other.
C10_InputOrder ==
    (mode = "driver" /\ (flights # <<>> \/ pc \in {"returned", "raised"})) =>
        LET res == SerialResults
            fls == SerialFlightsOf(res)
            val == SerialValidOf(fls)
            frames == [i \in 1..Len(val) |-> Normalize(val[i])]
            outcome == OutcomeOf(res, frames)
        IN  /\ flights # <<>> => flights = fls /\ arg = val
            /\ pc \in {"returned", "raised"} =>
                  /\ pc = outcome.pc
                  /\ err = outcome.err
                  /\ ret = outcome.ret

\* the driver returned corpora of two or more flights after a later task had
\* finished before an earlier one
C10_Witness ==
    /\ mode = "driver" /\ pc = "returned"
    /\ Len(ret.md) >= 2
    /\ \E a, b \in 1..Len(completion) :
          /\ a < b /\ completion[a] > completion[b]
          /\ flights[completion[a]].valid /\ flights[completion[b]].valid

====
